---- MODULE Spec2Model ----
(***************************************************************************)
(* Order placement with inventory reservation (POST /orders) of the        *)
(* e-commerce REST backend, together with the admin product routes that    *)
(* write the same Product documents.                                       *)
(*                                                                         *)
(* The document store is the pair (products, orders).  Each request slot   *)
(* r runs one execution of the POST /orders handler; its steps are the     *)
(* handler's awaits (Product.findById, product.save, order.save), between  *)
(* which other requests and admin operations may run.                      *)
(*                                                                         *)
(* Money is kept in whole currency units.  Prices are multiples of 10, so  *)
(* subtotal * 0.1 is the exact integer subtotal \div TaxDivisor.           *)
(*                                                                         *)
(* The specifications share the actions:                                   *)
(*   Spec      one placement against a catalogue that the admin routes     *)
(*             edit at any moment, also between the handler's awaits;      *)
(*   SpecRace  placements that interleave with each other on a catalogue   *)
(*             the admin set up before the first of them arrived;          *)
(*   SpecValidate    the validateOrder middleware on bodies of any shape;  *)
(*   SpecOrders      a placement and the routes that read and update the   *)
(*                   stored orders (GET /orders/:id, GET /orders, PATCH    *)
(*                   /orders/:id/status) behind their authorization;       *)
(*   SpecCategories  the category routes and the products' category, with  *)
(*                   DELETE /categories/:id interleaved at its awaits.     *)
(***************************************************************************)
EXTENDS Integers, Sequences, FiniteSets, TLC

\* ---- bounds of the model
MaxInventory == 2
MaxQty == 2
MaxItems == 2

ProductIds == {1, 2}
Reqs == {1, 2}
Versions == {[name |-> "n1", price |-> 50], [name |-> "n2", price |-> 60]}

\* ---- program constants
TaxDivisor == 10
FreeShippingOver == 100
ShippingFee == 10
InventoryMin == 0
InventoryDefault == 0
StatusDefault == "pending"

VARIABLES
  products,        \* Product collection: _id -> [name, price, inventory]
  nextId,          \* the next ObjectId the store assigns to a Product
  orders,          \* Order collection, in insertion order
  pc,              \* per request: position in the POST /orders handler
  items,           \* per request: req.body.items
  reqBody,         \* per request: the rest of req.body (shippingAddress,
                   \* paymentMethod)
  idx,             \* per request: index of the line item being processed
  product,         \* per request: the Product document loaded by findById
  subtotal,        \* per request: running subtotal
  processedItems,  \* per request: line-item snapshots so far
  res,             \* per request: the HTTP response sent
  log,             \* per request: history of the store calls of the handler
  snap,            \* per request: inventory counts when the handler started
                   \* (history, recorded by SpecRace)
  received,        \* per request: the body as it arrived (history, recorded by
                   \* SpecValidate)
  reading,         \* the GET /orders/:id request that passed isOwnerOrAdmin and
                   \* whose handler has not read the order yet
  reply,           \* the last response of GET /orders/:id, GET /orders and
                   \* PATCH /orders/:id/status
  categories,      \* Category collection: _id -> [name, parent] (parent 0: none)
  nextCategoryId,  \* the next ObjectId the store assigns to a Category
  productCategory, \* Product.category: Product _id -> Category _id (recorded by
                   \* SpecCategories)
  removal          \* the DELETE /categories/:id request: its position, its
                   \* :id and its response

vars == <<products, nextId, orders, pc, items, reqBody, idx, product,
          subtotal, processedItems, res, log, snap, received, reading, reply,
          categories, nextCategoryId, productCategory, removal>>

reqVars == <<pc, items, reqBody, idx, product, subtotal, processedItems, res, log, snap>>

\* The variables that only some of the specifications record.
orderViews == <<reading, reply>>
catVars == <<categories, nextCategoryId, productCategory, removal>>
aux == <<received, orderViews, catVars>>

NoProduct == [_id |-> 0]
NoResponse == [status |-> 0]
NoBody == [paymentMethod |-> ""]

\* req.user._id as set by authenticate: each request slot is the session of one
\* customer.
User(r) == IF r = 1 THEN "u1" ELSE "u2"

\* ---- request bodies
LineItems == [product : ProductIds, quantity : 1..MaxQty]

RECURSIVE SeqsUpTo(_, _)
SeqsUpTo(S, n) ==
  IF n = 0 THEN {<<>>}
  ELSE LET shorter == SeqsUpTo(S, n - 1)
       IN  shorter \cup {Append(s, x) : s \in {t \in shorter : Len(t) = n - 1}, x \in S}

\* Carts of valid line items (the empty one is invalid), and one with a zero
\* quantity.
Carts == SeqsUpTo(LineItems, MaxItems) \cup {<<[product |-> 1, quantity |-> 0]>>}

\* Bodies of admin product requests: without and with an inventory, and two that
\* validateProduct rejects (price 0, inventory -1).
ProductBodies ==
  Versions
    \cup {[name |-> v.name, price |-> v.price, inventory |-> n] :
            v \in Versions, n \in (-1)..MaxInventory}
    \cup {[name |-> "n1", price |-> 0]}

\* A JSON body is a record holding the keys that are present.  The value under
\* "items" is a sequence of items unless the key "itemsType" says it is no
\* array.  An item is null ([null |-> TRUE]) or a record of the keys it has; its
\* quantity is the number quantity + tenths / 10 ("tenths" is present when the
\* number has a fractional part), or no number at all when "nan" is present.
Null == [null |-> TRUE]
Address == [name |-> "a", street |-> "a", city |-> "a", postalCode |-> "a",
            country |-> "a"]
AddressFields == {"name", "street", "city", "postalCode", "country"}
PaymentMethods == {"credit_card", "paypal", "bank_transfer"}

\* The body of a customer who fills the checkout form in: the cart varies.
Body(its) ==
  [items |-> its, shippingAddress |-> Address, paymentMethod |-> "credit_card"]

OddItems ==
  {<<>>,
   <<Null>>,
   <<[quantity |-> 1]>>,
   <<[product |-> 1]>>,
   <<[product |-> 1, quantity |-> 0]>>,
   <<[product |-> 1, quantity |-> -1]>>,
   <<[product |-> 1, quantity |-> 0, nan |-> TRUE]>>,
   <<[product |-> 1, quantity |-> 1, tenths |-> 5]>>,
   <<[product |-> 1, quantity |-> 1], Null>>,
   <<[product |-> 1, quantity |-> 1], [product |-> 2, quantity |-> 0]>>}

Without(f, key) == [k \in DOMAIN f \ {key} |-> f[k]]

\* Bodies as any client may send them.
RawBodies ==
  LET full == {[items |-> its, shippingAddress |-> a, paymentMethod |-> m] :
                 its \in SeqsUpTo(LineItems, MaxItems) \cup OddItems,
                 a \in {Address} \cup {Without(Address, k) : k \in AddressFields},
                 m \in PaymentMethods \cup {"cash"}}
      good == Body(<<[product |-> 1, quantity |-> 1]>>)
  IN  full
        \cup {Without(b, "shippingAddress") : b \in full}
        \cup {Without(b, "paymentMethod") : b \in full}
        \cup {Without(good, "items"),
              [items |-> <<>>, itemsType |-> "object",
               shippingAddress |-> Address, paymentMethod |-> "paypal"]}

\* !item.quantity || isNaN(item.quantity) || item.quantity <= 0
BadQuantity(it) ==
  \/ "quantity" \notin DOMAIN it
  \/ "nan" \in DOMAIN it
  \/ it.quantity = 0 /\ "tenths" \notin DOMAIN it
  \/ it.quantity < 0

\* The items that end validateOrder's loop: reading a property of null throws,
\* a missing product or a bad quantity returns the 400.
Stops(it) == "null" \in DOMAIN it \/ "product" \notin DOMAIN it \/ BadQuantity(it)

\* validateOrder: "next" when it calls next(), "400" when it answers 400,
\* "throw" when it throws (the application's error handler answers 500).
ValidateOrder(b) ==
  IF "items" \notin DOMAIN b \/ "itemsType" \in DOMAIN b \/ Len(b.items) = 0
  THEN "400"
  ELSE LET stops == {k \in 1..Len(b.items) : Stops(b.items[k])}
           first == CHOOSE k \in stops : \A j \in stops : k <= j
       IN  IF stops # {}
           THEN IF "null" \in DOMAIN b.items[first] THEN "throw" ELSE "400"
           ELSE IF \/ "shippingAddress" \notin DOMAIN b
                   \/ \E k \in AddressFields : k \notin DOMAIN b.shippingAddress
                THEN "400"
                ELSE IF \/ "paymentMethod" \notin DOMAIN b
                        \/ b.paymentMethod \notin PaymentMethods
                     THEN "400"
                     ELSE "next"

\* validateProduct: price is a positive number; inventory, when given, is a
\* non-negative number.
ValidateProduct(body) ==
  /\ body.price > 0
  /\ ("inventory" \in DOMAIN body => body.inventory >= 0)

\* productSchema validators (min: 0 on price and on inventory).
SchemaValid(doc) ==
  /\ doc.price >= 0
  /\ doc.inventory >= InventoryMin

\* ---- pricing
Tax(sub) == sub \div TaxDivisor
ShippingFromThreshold(sub) == IF sub >= FreeShippingOver THEN 0 ELSE ShippingFee
Shipping(sub) == IF sub > FreeShippingOver THEN 0 ELSE ShippingFee
Total(sub) == sub + Tax(sub) + Shipping(sub)

\* ---- the handler of POST /orders
InsufficientInventoryOrLast(doc, item) == doc.inventory <= item.quantity
InsufficientInventory(doc, item) == doc.inventory < item.quantity

ReduceNothing(doc, item) == doc
Reduce(doc, item) == [doc EXCEPT !.inventory = @ - item.quantity]

Snapshot(doc, item) ==
  [product |-> doc._id, name |-> doc.name, price |-> doc.price,
   quantity |-> item.quantity]

\* product.save(): the document's modified path, inventory, is $set to the value
\* held by the loaded document; a document deleted meanwhile is not re-created.
SetInventory(prods, doc) ==
  IF doc._id \in DOMAIN prods
  THEN [prods EXCEPT ![doc._id].inventory = doc.inventory]
  ELSE prods

\* The response is sent and the handler returns: req and the locals are gone.
Send(r, response) ==
  /\ res' = [res EXCEPT ![r] = response]
  /\ pc' = [pc EXCEPT ![r] = "done"]
  /\ items' = [items EXCEPT ![r] = <<>>]
  /\ reqBody' = [reqBody EXCEPT ![r] = NoBody]
  /\ idx' = [idx EXCEPT ![r] = 0]
  /\ product' = [product EXCEPT ![r] = NoProduct]
  /\ subtotal' = [subtotal EXCEPT ![r] = 0]
  /\ processedItems' = [processedItems EXCEPT ![r] = <<>>]

\* validateOrder, then the handler starts its loop.  Request slots are numbered
\* in order of arrival.
PlaceOrder(r, b) ==
  /\ pc[r] = "idle"
  /\ \A q \in Reqs : q < r => pc[q] # "idle"
  /\ IF ValidateOrder(b) = "next"
     THEN /\ pc' = [pc EXCEPT ![r] = "findById"]
          /\ items' = [items EXCEPT ![r] = b.items]
          /\ reqBody' = [reqBody EXCEPT ![r] = Without(b, "items")]
          /\ idx' = [idx EXCEPT ![r] = 1]
          /\ UNCHANGED <<res, product, subtotal, processedItems>>
     ELSE IF ValidateOrder(b) = "400"
          THEN Send(r, [status |-> 400, error |-> "validation"])
          ELSE Send(r, [status |-> 500, error |-> "unhandled"])
  /\ UNCHANGED <<products, nextId, orders, log>>

Fetched(r, id, name, price) ==
  log' = [log EXCEPT ![r] = Append(@, [op |-> "findById", i |-> idx[r], id |-> id,
                                        name |-> name, price |-> price])]

\* Units of product p in a sequence of line items.
RECURSIVE Units(_, _)
Units(its, p) ==
  IF its = <<>> THEN 0
  ELSE (IF its[1].product = p THEN its[1].quantity ELSE 0) + Units(Tail(its), p)

\* (variant: the decrements of the items before the failing one are undone)
NotFoundRollback(r, id) ==
  /\ Fetched(r, id, "", 0)
  /\ Send(r, [status |-> 400, error |-> "notFound", id |-> id])
  /\ products' = [p \in DOMAIN products |->
                    [products[p] EXCEPT !.inventory = @ + Units(processedItems[r], p)]]

\* if (!product) return res.status(400)
NotFound(r, id) ==
  /\ Fetched(r, id, "", 0)
  /\ Send(r, [status |-> 400, error |-> "notFound", id |-> id])
  /\ UNCHANGED products

\* (variant: the error is kept and the loop goes on to the next line item)
RejectedContinue(r, doc) ==
  /\ Fetched(r, doc._id, doc.name, doc.price)
  /\ IF idx[r] + 1 > Len(items[r])
     THEN Send(r, [status |-> 400, error |-> "inventory",
                   name |-> doc.name, available |-> doc.inventory])
     ELSE /\ idx' = [idx EXCEPT ![r] = @ + 1]
          /\ UNCHANGED <<pc, res, items, reqBody, product, subtotal, processedItems>>
  /\ UNCHANGED products

\* if (product.inventory < item.quantity) return res.status(400)
Rejected(r, doc) ==
  /\ Fetched(r, doc._id, doc.name, doc.price)
  /\ Send(r, [status |-> 400, error |-> "inventory",
              name |-> doc.name, available |-> doc.inventory])
  /\ UNCHANGED products

\* product.inventory -= item.quantity, in the loaded document
Reserve(r, doc, item) ==
  /\ Fetched(r, doc._id, doc.name, doc.price)
  /\ product' = [product EXCEPT ![r] = Reduce(doc, item)]
  /\ pc' = [pc EXCEPT ![r] = "save"]
  /\ UNCHANGED <<products, res, items, reqBody, idx, subtotal, processedItems>>

Load(id) ==
  [_id |-> id, name |-> products[id].name, price |-> products[id].price,
   inventory |-> products[id].inventory]

\* Product.findById resolves; the not-found and inventory checks and the
\* in-memory decrement follow without a further await.
FindById(r) ==
  /\ pc[r] = "findById"
  /\ LET item == items[r][idx[r]]
     IN  IF item.product \notin DOMAIN products
         THEN NotFound(r, item.product)
         ELSE IF InsufficientInventory(Load(item.product), item)
              THEN Rejected(r, Load(item.product))
              ELSE Reserve(r, Load(item.product), item)
  /\ UNCHANGED <<nextId, orders, snap>>

\* (variant: the decrement sent to the store as an update operator, which is
\* applied to the stored value and runs no validator)
ProductSaveInc(r) ==
  /\ pc[r] = "save"
  /\ LET item == items[r][idx[r]]
         id == product[r]._id
     IN  /\ products' = IF id \in DOMAIN products
                         THEN [products EXCEPT ![id].inventory = @ - item.quantity]
                         ELSE products
         /\ log' = [log EXCEPT ![r] = Append(@,
                      [op |-> "save", i |-> idx[r], id |-> id,
                       name |-> product[r].name, price |-> product[r].price])]
         /\ subtotal' = [subtotal EXCEPT ![r] = @ + product[r].price * item.quantity]
         /\ processedItems' = [processedItems EXCEPT ![r] =
                                 Append(@, Snapshot(product[r], item))]
         /\ idx' = [idx EXCEPT ![r] = @ + 1]
         /\ pc' = [pc EXCEPT ![r] =
                     IF idx[r] + 1 > Len(items[r]) THEN "orderSave" ELSE "findById"]
  /\ UNCHANGED <<nextId, orders, items, reqBody, product, res, snap>>

\* product.save() resolves; the snapshot is pushed and the loop goes on.
ProductSave(r) ==
  /\ pc[r] = "save"
  /\ SchemaValid(product[r])
  /\ LET item == items[r][idx[r]]
     IN  /\ products' = SetInventory(products, product[r])
         /\ log' = [log EXCEPT ![r] = Append(@,
                      [op |-> "save", i |-> idx[r], id |-> product[r]._id,
                       name |-> product[r].name, price |-> product[r].price])]
         /\ subtotal' = [subtotal EXCEPT ![r] = @ + product[r].price * item.quantity]
         /\ processedItems' = [processedItems EXCEPT ![r] =
                                 Append(@, Snapshot(product[r], item))]
         /\ idx' = [idx EXCEPT ![r] = @ + 1]
         /\ pc' = [pc EXCEPT ![r] =
                     IF idx[r] + 1 > Len(items[r]) THEN "orderSave" ELSE "findById"]
  /\ UNCHANGED <<nextId, orders, items, reqBody, product, res, snap>>

NewOrder(r) ==
  [req |-> r, user |-> User(r), items |-> processedItems[r],
   shippingAddress |-> reqBody[r].shippingAddress,
   paymentMethod |-> reqBody[r].paymentMethod,
   subtotal |-> subtotal[r],
   tax |-> Tax(subtotal[r]), shipping |-> Shipping(subtotal[r]),
   total |-> Total(subtotal[r]), status |-> StatusDefault]

\* (variant: an order equal to one already stored is not inserted again)
OrderSaveOnce(r) ==
  /\ pc[r] = "orderSave"
  /\ LET same == {k \in 1..Len(orders) : orders[k].items = processedItems[r]}
     IN  IF same = {}
         THEN /\ orders' = Append(orders, NewOrder(r))
              /\ Send(r, [status |-> 201, order |-> Len(orders) + 1])
         ELSE /\ orders' = orders
              /\ Send(r, [status |-> 201, order |-> CHOOSE k \in same : TRUE])
  /\ UNCHANGED <<products, nextId, log, snap>>

\* order.save() resolves and the handler answers 201 with the saved order.
OrderSave(r) ==
  /\ pc[r] = "orderSave"
  /\ orders' = Append(orders, NewOrder(r))
  /\ Send(r, [status |-> 201, order |-> Len(orders) + 1])
  /\ UNCHANGED <<products, nextId, log, snap>>

\* (variant: the failure is raised after the order document was written)
StoreFailsAfterInsert(r) ==
  /\ pc[r] \in {"findById", "save", "orderSave"}
  /\ orders' = IF pc[r] = "orderSave" THEN Append(orders, NewOrder(r)) ELSE orders
  /\ Send(r, [status |-> 500])
  /\ UNCHANGED <<products, nextId, log, snap>>

\* (variant: the catch block only logs the error and sends nothing)
StoreFailsSilently(r) ==
  /\ pc[r] \in {"findById", "save", "orderSave"}
  /\ Send(r, NoResponse)
  /\ UNCHANGED <<products, nextId, orders, log, snap>>

\* A store call rejects (connection error, validation error, document gone):
\* the catch block answers 500.
StoreFails(r) ==
  /\ pc[r] \in {"findById", "save", "orderSave"}
  /\ Send(r, [status |-> 500])
  /\ UNCHANGED <<products, nextId, orders, log, snap>>

\* ---- admin product routes
ProductDoc(body, inventory) ==
  [name |-> body.name, price |-> body.price,
   inventory |-> IF "inventory" \in DOMAIN body THEN body.inventory ELSE inventory]

CreateProduct(body) ==
  /\ nextId \in ProductIds
  /\ IF ValidateProduct(body) /\ SchemaValid(ProductDoc(body, InventoryDefault))
     THEN /\ products' = [p \in DOMAIN products \cup {nextId} |->
                            IF p = nextId THEN ProductDoc(body, InventoryDefault)
                            ELSE products[p]]
          /\ nextId' = nextId + 1
     ELSE UNCHANGED <<products, nextId>>
  /\ UNCHANGED <<orders, reqVars>>

\* (variant: the new name and price are also written into the stored orders)
UpdateProductCascade(id, body) ==
  /\ IF /\ ValidateProduct(body)
        /\ id \in DOMAIN products
        /\ SchemaValid(ProductDoc(body, products[id].inventory))
     THEN /\ products' = [products EXCEPT ![id] = ProductDoc(body, products[id].inventory)]
          /\ orders' = [k \in 1..Len(orders) |->
                          [orders[k] EXCEPT !.items =
                             [j \in 1..Len(orders[k].items) |->
                                IF orders[k].items[j].product = id
                                THEN [orders[k].items[j] EXCEPT !.name = body.name,
                                                                !.price = body.price]
                                ELSE orders[k].items[j]]]]
     ELSE UNCHANGED <<products, orders>>
  /\ UNCHANGED <<nextId, reqVars>>

UpdateProduct(id, body) ==
  /\ IF /\ ValidateProduct(body)
        /\ id \in DOMAIN products
        /\ SchemaValid(ProductDoc(body, products[id].inventory))
     THEN products' = [products EXCEPT ![id] = ProductDoc(body, products[id].inventory)]
     ELSE UNCHANGED products
  /\ UNCHANGED <<nextId, orders, reqVars>>

DeleteProduct(id) ==
  /\ IF id \in DOMAIN products
     THEN products' = [p \in DOMAIN products \ {id} |-> products[p]]
     ELSE UNCHANGED products
  /\ UNCHANGED <<nextId, orders, reqVars>>

\* ---- the routes that read and update stored orders
Callers == {"u1", "u2", "admin", "anon"}
OrderIds == {1, 2}
NoRead == [id |-> 0]
NoReply == [status |-> 0]

\* authenticate: the bearer token verifies and its user exists.
Authenticate(c) == c # "anon"

\* req.user.role, from the User document that authenticate loaded.
Role(c) == IF c = "admin" THEN "admin" ELSE "user"

IsAdmin(c) == Role(c) = "admin"

\* (variant: every authenticated caller passes)
IsAnyUser(c, resource) == TRUE

\* isOwner || req.user.role === 'admin'
IsOwnerOrAdmin(c, resource) == resource.user = c \/ IsAdmin(c)

Reply(route, c, id, status) ==
  [route |-> route, caller |-> c, id |-> id, status |-> status]

With(f, key, val) == [k \in DOMAIN f \cup {key} |-> IF k = key THEN val ELSE f[k]]

\* GET /orders/:id up to the handler: authenticate, then isOwnerOrAdmin(Order),
\* which loads the order (ok: the store answers).
GetOrder(c, id, ok) ==
  /\ reading = NoRead
  /\ IF ~Authenticate(c)
     THEN reply' = Reply("getOrder", c, id, 401) /\ UNCHANGED reading
     ELSE IF ~ok
          THEN reply' = Reply("getOrder", c, id, 500) /\ UNCHANGED reading
          ELSE IF id \notin 1..Len(orders)
               THEN reply' = Reply("getOrder", c, id, 404) /\ UNCHANGED reading
               ELSE IF IsOwnerOrAdmin(c, orders[id])
                    THEN reading' = [id |-> id, caller |-> c] /\ UNCHANGED reply
                    ELSE reply' = Reply("getOrder", c, id, 403) /\ UNCHANGED reading
  /\ UNCHANGED <<products, nextId, orders, reqVars, received, catVars>>

\* The handler of GET /orders/:id: Order.findById resolves and the order is sent.
GetOrderReturn(ok) ==
  /\ reading # NoRead
  /\ reply' = IF ~ok
              THEN Reply("getOrder", reading.caller, reading.id, 500)
              ELSE IF reading.id \notin 1..Len(orders)
                   THEN Reply("getOrder", reading.caller, reading.id, 404)
                   ELSE With(Reply("getOrder", reading.caller, reading.id, 200),
                             "order", reading.id)
  /\ reading' = NoRead
  /\ UNCHANGED <<products, nextId, orders, reqVars, received, catVars>>

\* GET /orders: authenticate, isAdmin, then the page of all orders.
ListOrders(c, ok) ==
  /\ reply' = IF ~Authenticate(c) THEN Reply("listOrders", c, 0, 401)
              ELSE IF ~IsAdmin(c) THEN Reply("listOrders", c, 0, 403)
              ELSE IF ~ok THEN Reply("listOrders", c, 0, 500)
              ELSE With(Reply("listOrders", c, 0, 200), "total", Len(orders))
  /\ UNCHANGED <<products, nextId, orders, reqVars, received, reading, catVars>>

Statuses == {"pending", "processing", "shipped", "delivered", "cancelled"}

\* Bodies of PATCH /orders/:id/status: a status that is valid, unknown or
\* missing, with or without a trackingNumber.
PatchBodies ==
  {[status |-> st] : st \in {"processing", "cancelled", "refunded"}}
    \cup {[status |-> st, trackingNumber |-> "t1"] : st \in {"shipped", "refunded"}}
    \cup {[trackingNumber |-> "t1"], [status |-> "processing", total |-> 0]}

\* const updateData = { status }; if (trackingNumber) updateData.trackingNumber
UpdateData(b) ==
  IF "trackingNumber" \in DOMAIN b
  THEN [status |-> b.status, trackingNumber |-> b.trackingNumber]
  ELSE [status |-> b.status]

\* { $set: updateData } on one document
Set(doc, data) ==
  [k \in DOMAIN doc \cup DOMAIN data |-> IF k \in DOMAIN data THEN data[k] ELSE doc[k]]

\* (variant: the whole body is $set on the order)
UpdateStatusByBody(c, id, b, ok) ==
  /\ IF ~Authenticate(c)
     THEN reply' = Reply("updateStatus", c, id, 401) /\ UNCHANGED orders
     ELSE IF ~IsAdmin(c)
          THEN reply' = Reply("updateStatus", c, id, 403) /\ UNCHANGED orders
          ELSE IF ~ok
               THEN reply' = Reply("updateStatus", c, id, 500) /\ UNCHANGED orders
               ELSE IF id \notin 1..Len(orders)
                    THEN reply' = Reply("updateStatus", c, id, 404) /\ UNCHANGED orders
                    ELSE /\ orders' = [orders EXCEPT ![id] = Set(@, b)]
                         /\ reply' = Reply("updateStatus", c, id, 200)
  /\ UNCHANGED <<products, nextId, reqVars, received, reading, catVars>>

\* PATCH /orders/:id/status: authenticate, isAdmin, then the handler.
UpdateStatus(c, id, b, ok) ==
  /\ IF ~Authenticate(c)
     THEN reply' = Reply("updateStatus", c, id, 401) /\ UNCHANGED orders
     ELSE IF ~IsAdmin(c)
          THEN reply' = Reply("updateStatus", c, id, 403) /\ UNCHANGED orders
          ELSE IF "status" \notin DOMAIN b \/ b.status \notin Statuses
               THEN reply' = Reply("updateStatus", c, id, 400) /\ UNCHANGED orders
               ELSE IF ~ok
                    THEN reply' = Reply("updateStatus", c, id, 500) /\ UNCHANGED orders
                    ELSE IF id \notin 1..Len(orders)
                         THEN reply' = Reply("updateStatus", c, id, 404) /\ UNCHANGED orders
                         ELSE /\ orders' = [orders EXCEPT ![id] = Set(@, UpdateData(b))]
                              /\ reply' = Reply("updateStatus", c, id, 200)
  /\ UNCHANGED <<products, nextId, reqVars, received, reading, catVars>>

\* ---- the category routes, and the category of a product
CategoryIds == {1, 2}
CategoryNames == {"c1", "c2"}
NoParent == 0
NoRemoval == [pc |-> "idle"]

\* Bodies of POST and PUT /categories: a name, with or without a parent.
CategoryBodies ==
  {[name |-> n] : n \in CategoryNames}
    \cup {[name |-> n, parent |-> c] : n \in CategoryNames, c \in CategoryIds}

\* Bodies of PUT /categories/:id that move the category: a parent or null.
ParentBodies == {[parent |-> c] : c \in CategoryIds \cup {NoParent}}

\* Product.exists({ category: id })
HasProducts(id) == \E p \in DOMAIN productCategory : productCategory[p] = id

\* Category.exists({ parent: id })
HasSubcategories(id) == \E c \in DOMAIN categories : categories[c].parent = id

\* POST /categories: the name is required and its slug must be new; the parent
\* is stored as given.
CreateCategory(b) ==
  /\ nextCategoryId \in CategoryIds
  /\ IF \E c \in DOMAIN categories : categories[c].name = b.name
     THEN UNCHANGED <<categories, nextCategoryId>>
     ELSE /\ categories' =
               With(categories, nextCategoryId,
                    [name |-> b.name,
                     parent |-> IF "parent" \in DOMAIN b THEN b.parent ELSE NoParent])
          /\ nextCategoryId' = nextCategoryId + 1
  /\ UNCHANGED <<products, nextId, orders, reqVars, received, orderViews,
                 productCategory, removal>>

\* PUT /categories/:id with a parent in the body: $set of parent || null.
UpdateCategory(id, b) ==
  /\ IF id \in DOMAIN categories
     THEN categories' = [categories EXCEPT ![id].parent = b.parent]
     ELSE UNCHANGED categories
  /\ UNCHANGED <<products, nextId, orders, reqVars, received, orderViews,
                 nextCategoryId, productCategory, removal>>

\* POST /products with category c in the body: the reference is stored as given.
CreateProductIn(b, c) ==
  /\ CreateProduct(b)
  /\ productCategory' = IF nextId' # nextId
                        THEN With(productCategory, nextId, c)
                        ELSE productCategory
  /\ UNCHANGED <<received, orderViews, categories, nextCategoryId, removal>>

\* PUT /products/:id with category c in the body.
UpdateProductIn(id, b, c) ==
  /\ UpdateProduct(id, b)
  /\ productCategory' = IF /\ ValidateProduct(b)
                           /\ id \in DOMAIN products
                           /\ SchemaValid(ProductDoc(b, products[id].inventory))
                        THEN [productCategory EXCEPT ![id] = c]
                        ELSE productCategory
  /\ UNCHANGED <<received, orderViews, categories, nextCategoryId, removal>>

\* DELETE /products/:id
DeleteProductIn(id) ==
  /\ DeleteProduct(id)
  /\ productCategory' = Without(productCategory, id)
  /\ UNCHANGED <<received, orderViews, categories, nextCategoryId, removal>>

Removed(status) == [removal EXCEPT !.pc = "done", !.status = status]

notCategories == <<products, nextId, orders, reqVars, received, orderViews>>

\* DELETE /categories/:id arrives and Product.exists resolves.
DeleteCategory(id) ==
  /\ removal.pc \in {"idle", "done"}
  /\ removal' = IF HasProducts(id)
                THEN [pc |-> "done", id |-> id, status |-> 400]
                ELSE [pc |-> "hasSubcategories", id |-> id, status |-> 0]
  /\ UNCHANGED <<notCategories, categories, nextCategoryId, productCategory>>

\* Category.exists resolves.
CheckSubcategories ==
  /\ removal.pc = "hasSubcategories"
  /\ removal' = IF HasSubcategories(removal.id)
                THEN Removed(400)
                ELSE [removal EXCEPT !.pc = "findByIdAndDelete"]
  /\ UNCHANGED <<notCategories, categories, nextCategoryId, productCategory>>

\* Category.findByIdAndDelete resolves.
FindByIdAndDelete ==
  /\ removal.pc = "findByIdAndDelete"
  /\ IF removal.id \in DOMAIN categories
     THEN /\ categories' = Without(categories, removal.id)
          /\ removal' = Removed(200)
     ELSE removal' = Removed(404) /\ UNCHANGED categories
  /\ UNCHANGED <<notCategories, nextCategoryId, productCategory>>

\* A store call of the delete rejects: the catch block answers 500.
DeleteCategoryFails ==
  /\ removal.pc \in {"hasSubcategories", "findByIdAndDelete"}
  /\ removal' = Removed(500)
  /\ UNCHANGED <<notCategories, categories, nextCategoryId, productCategory>>

\* ---- specifications
Init ==
  /\ products = <<>>
  /\ nextId = 1
  /\ orders = <<>>
  /\ pc = [r \in Reqs |-> "idle"]
  /\ items = [r \in Reqs |-> <<>>]
  /\ reqBody = [r \in Reqs |-> NoBody]
  /\ idx = [r \in Reqs |-> 0]
  /\ product = [r \in Reqs |-> NoProduct]
  /\ subtotal = [r \in Reqs |-> 0]
  /\ processedItems = [r \in Reqs |-> <<>>]
  /\ res = [r \in Reqs |-> NoResponse]
  /\ log = [r \in Reqs |-> <<>>]
  /\ snap = [r \in Reqs |-> <<>>]
  /\ received = [r \in Reqs |-> NoBody]
  /\ reading = NoRead
  /\ reply = NoReply
  /\ categories = <<>>
  /\ nextCategoryId = 1
  /\ productCategory = <<>>
  /\ removal = NoRemoval

\* One placement; admin operations interleave freely with its awaits.
Next ==
  \/ \E r \in Reqs, its \in Carts :
        r = 1 /\ PlaceOrder(r, Body(its)) /\ UNCHANGED <<snap, aux>>
  \/ \E r \in Reqs : FindById(r) /\ UNCHANGED aux
  \/ \E r \in Reqs : ProductSave(r) /\ UNCHANGED aux
  \/ \E r \in Reqs : OrderSave(r) /\ UNCHANGED aux
  \/ \E r \in Reqs : StoreFails(r) /\ UNCHANGED aux
  \/ \E b \in ProductBodies : CreateProduct(b) /\ UNCHANGED aux
  \/ \E id \in ProductIds, b \in ProductBodies : UpdateProduct(id, b) /\ UNCHANGED aux
  \/ \E id \in ProductIds : DeleteProduct(id) /\ UNCHANGED aux

Spec == Init /\ [][Next]_vars

\* Placements interleave with each other at their awaits; the admin sets the
\* catalogue up before the first placement arrives.
Fresh == \A r \in Reqs : pc[r] = "idle"

Inventories == [p \in DOMAIN products |-> products[p].inventory]

NextRace ==
  \/ \E r \in Reqs, its \in Carts :
        /\ PlaceOrder(r, Body(its))
        /\ snap' = [snap EXCEPT ![r] = Inventories]
        /\ UNCHANGED aux
  \/ \E r \in Reqs : FindById(r) /\ UNCHANGED aux
  \/ \E r \in Reqs : ProductSave(r) /\ UNCHANGED aux
  \/ \E r \in Reqs : OrderSave(r) /\ UNCHANGED aux
  \/ \E r \in Reqs : StoreFails(r) /\ UNCHANGED aux
  \/ \E b \in ProductBodies : Fresh /\ CreateProduct(b) /\ UNCHANGED aux
  \/ \E id \in ProductIds, b \in ProductBodies :
        Fresh /\ UpdateProduct(id, b) /\ UNCHANGED aux
  \/ \E id \in ProductIds : Fresh /\ DeleteProduct(id) /\ UNCHANGED aux

SpecRace == Init /\ [][NextRace]_vars

\* The validation middleware in front of the handler, on bodies as any client may
\* send them: what it answers and what it lets through to the handler.  (The
\* handler's own steps are the subject of Spec and SpecRace.)
NextValidate ==
  \/ \E r \in Reqs, b \in RawBodies :
        /\ r = 1
        /\ PlaceOrder(r, b)
        /\ received' = [received EXCEPT ![r] = b]
        /\ snap' = [snap EXCEPT ![r] = Inventories]
        /\ UNCHANGED <<orderViews, catVars>>
  \/ \E b \in ProductBodies : Fresh /\ CreateProduct(b) /\ UNCHANGED aux
  \/ \E id \in ProductIds, b \in ProductBodies :
        Fresh /\ UpdateProduct(id, b) /\ UNCHANGED aux
  \/ \E id \in ProductIds : Fresh /\ DeleteProduct(id) /\ UNCHANGED aux

SpecValidate == Init /\ [][NextValidate]_vars

\* One customer's placement on a catalogue set up before it, and the routes that
\* read and update the stored orders, called by the owner, another customer, an
\* admin and a caller without a valid token.
NextOrders ==
  \/ \E r \in Reqs, its \in Carts :
        r = 1 /\ Len(its) <= 1 /\ PlaceOrder(r, Body(its)) /\ UNCHANGED <<snap, aux>>
  \/ \E r \in Reqs : FindById(r) /\ UNCHANGED aux
  \/ \E r \in Reqs : ProductSave(r) /\ UNCHANGED aux
  \/ \E r \in Reqs : OrderSave(r) /\ UNCHANGED aux
  \/ \E r \in Reqs : StoreFails(r) /\ UNCHANGED aux
  \/ \E b \in ProductBodies : Fresh /\ CreateProduct(b) /\ UNCHANGED aux
  \/ \E id \in ProductIds, b \in ProductBodies :
        Fresh /\ UpdateProduct(id, b) /\ UNCHANGED aux
  \/ \E id \in ProductIds : Fresh /\ DeleteProduct(id) /\ UNCHANGED aux
  \/ \E c \in Callers, id \in OrderIds, ok \in BOOLEAN : GetOrder(c, id, ok)
  \/ \E ok \in BOOLEAN : GetOrderReturn(ok)
  \/ \E c \in Callers, ok \in BOOLEAN : ListOrders(c, ok)
  \/ \E c \in Callers, id \in OrderIds, b \in PatchBodies, ok \in BOOLEAN :
        UpdateStatus(c, id, b, ok)

SpecOrders == Init /\ [][NextOrders]_vars

\* The Category ids a client can name: those the store has assigned so far.
Known(c) == c < nextCategoryId

\* The admin's category and product requests, interleaved with the awaits of a
\* DELETE /categories/:id.
NextCategories ==
  \/ \E b \in CategoryBodies :
        ("parent" \in DOMAIN b => Known(b.parent)) /\ CreateCategory(b)
  \/ \E id \in CategoryIds, b \in ParentBodies :
        (b.parent = NoParent \/ Known(b.parent)) /\ UpdateCategory(id, b)
  \/ \E b \in Versions, c \in CategoryIds : Known(c) /\ CreateProductIn(b, c)
  \/ \E id \in ProductIds, b \in Versions, c \in CategoryIds :
        Known(c) /\ UpdateProductIn(id, b, c)
  \/ \E id \in ProductIds : DeleteProductIn(id)
  \/ \E id \in CategoryIds : DeleteCategory(id)
  \/ CheckSubcategories
  \/ FindByIdAndDelete
  \/ DeleteCategoryFails

SpecCategories == Init /\ [][NextCategories]_vars

\* ---- properties

OrdersOf(r) == {k \in 1..Len(orders) : orders[k].req = r}

Responded(r, status) == pc[r] = "done" /\ res[r].status = status

\* C1: a placement request leaves exactly one Order document when it ends in
\* success (every line item was fetched and saved, and the order insert
\* succeeded) and none when it ends in any failure or has not ended yet.
C1_OneOrderOrNone ==
  \A r \in Reqs :
    /\ Cardinality(OrdersOf(r)) = IF Responded(r, 201) THEN 1 ELSE 0
    /\ Responded(r, 201) =>
         /\ OrdersOf(r) = {res[r].order}
         /\ Len(log[r]) = 2 * Len(orders[res[r].order].items)
         /\ Len(orders[res[r].order].items) >= 1

\* One request succeeded; the other failed on its second item, after its first
\* item's decrement was saved.
C1_Witness ==
  /\ Responded(1, 201)
  /\ Responded(2, 400)
  /\ Len(log[2]) = 3
  /\ Len(orders) = 1

\* C2: in every reachable state every Product's inventory is at least 0.
C2_InventoryNonNegative ==
  \A p \in DOMAIN products : products[p].inventory >= 0

\* A placement took a product's last units and the admin then edited another
\* product.
C2_Witness ==
  /\ Responded(1, 201)
  /\ DOMAIN products = {1, 2}
  /\ products[1].inventory = 0
  /\ orders[1].items[1].product = 1
  /\ orders[1].items[1].quantity = 2
  /\ products[2].inventory = MaxInventory

RECURSIVE LineSum(_)
LineSum(its) ==
  IF its = <<>> THEN 0
  ELSE its[1].price * its[1].quantity + LineSum(Tail(its))

\* C3: every persisted Order has subtotal = sum of (snapshot price x quantity),
\* tax = a tenth of the subtotal, shipping = 0 iff subtotal > 100 and 10
\* otherwise, and total = subtotal + tax + shipping.
C3_Pricing ==
  \A k \in 1..Len(orders) :
    LET o == orders[k]
    IN  /\ o.subtotal = LineSum(o.items)
        /\ 10 * o.tax = o.subtotal
        /\ (o.shipping = 0) <=> (o.subtotal > 100)
        /\ o.shipping \in {0, 10}
        /\ o.total = o.subtotal + o.tax + o.shipping

\* An order whose subtotal is exactly 100 pays the shipping fee.
C3_Witness ==
  \E k \in 1..Len(orders) :
    /\ orders[k].subtotal = 100
    /\ orders[k].shipping = 10
    /\ orders[k].total = 120

\* The step in which request r's Product.findById resolves, and its line item.
Fetches(r) == pc[r] = "findById" /\ Len(log'[r]) = Len(log[r]) + 1
Item(r) == items[r][idx[r]]
Alone(r) == \A q \in Reqs \ {r} : pc[q] = "idle"

\* C4: when a line item asks for more than the product's inventory, the request
\* ends with the inventory error, which reports the inventory read by that
\* check; the step changes no Product and persists no Order.  The error is
\* given only when the quantity exceeds the inventory.
C4_InsufficientInventory ==
  [][\A r \in Reqs :
       Fetches(r) =>
         LET p == Item(r).product
         IN  /\ (p \in DOMAIN products /\ Item(r).quantity > products[p].inventory)
                  => /\ pc'[r] = "done"
                     /\ res'[r] = [status |-> 400, error |-> "inventory",
                                   name |-> products[p].name,
                                   available |-> products[p].inventory]
                     /\ products' = products
                     /\ orders' = orders
                     /\ OrdersOf(r) = {}
             /\ (pc'[r] = "done" /\ res'[r].status = 400 /\ res'[r].error = "inventory")
                  => /\ p \in DOMAIN products
                     /\ Item(r).quantity > products[p].inventory]_vars

\* Inventory 1, cart [{1, 2}]: no order, inventory still 1, available 1 reported.
C4_Witness ==
  /\ Responded(1, 400)
  /\ res[1] = [status |-> 400, error |-> "inventory", name |-> "n1", available |-> 1]
  /\ log[1] = <<[op |-> "findById", i |-> 1, id |-> 1, name |-> "n1", price |-> 50]>>
  /\ 1 \in DOMAIN products
  /\ products[1].inventory = 1
  /\ orders = <<>>

\* C5: when a line item's product id resolves to no Product, the request ends
\* with the not-found error and persists no Order; the step changes no Product,
\* so the decrements saved for the items before it stay (with no other writer,
\* every inventory is its value at the start minus the units of the items
\* processed before), and the request makes no store call afterwards.
C5_NotFound ==
  [][\A r \in Reqs :
       /\ (Fetches(r) /\ Item(r).product \notin DOMAIN products)
            => /\ pc'[r] = "done"
               /\ res'[r] = [status |-> 400, error |-> "notFound",
                             id |-> Item(r).product]
               /\ orders' = orders
               /\ OrdersOf(r) = {}
               /\ products' = products
               /\ Alone(r) =>
                    \A p \in DOMAIN products :
                      products'[p].inventory = snap[r][p] - Units(processedItems[r], p)
       /\ pc[r] = "done" => (pc'[r] = "done" /\ log'[r] = log[r])]_vars

\* Cart [{1, 1}, {2, 1}] where product 2 does not exist: product 1 stays decremented.
C5_Witness ==
  /\ Responded(1, 400)
  /\ res[1] = [status |-> 400, error |-> "notFound", id |-> 2]
  /\ Len(log[1]) = 3
  /\ log[1][2].op = "save"
  /\ log[1][2].id = 1
  /\ pc[2] = "idle"
  /\ snap[1][1] = 2
  /\ products[1].inventory = 1
  /\ orders = <<>>

\* C6: a cart of two line items on the same product, whose first quantity fits
\* the inventory and whose combined quantity does not, run with no other
\* writer: the first item passes and is decremented, the second is checked
\* against the reduced inventory and fails, no Order is persisted and the
\* inventory ends at (initial - first quantity).
C6_SameProductTwice ==
  [][\A r \in Reqs :
       (/\ Fetches(r)
        /\ Alone(r)
        /\ Len(items[r]) = 2
        /\ items[r][1].product = items[r][2].product
        /\ items[r][1].product \in DOMAIN snap[r]
        /\ items[r][1].quantity <= snap[r][items[r][1].product]
        /\ items[r][1].quantity + items[r][2].quantity > snap[r][items[r][1].product])
         => LET p == items[r][1].product
                left == snap[r][p] - items[r][1].quantity
            IN  IF idx[r] = 1
                THEN /\ pc'[r] = "save"
                     /\ product'[r].inventory = left
                ELSE /\ products[p].inventory = left
                     /\ pc'[r] = "done"
                     /\ res'[r] = [status |-> 400, error |-> "inventory",
                                   name |-> products[p].name, available |-> left]
                     /\ products'[p].inventory = left
                     /\ orders' = orders
                     /\ OrdersOf(r) = {}]_vars

\* Inventory 2, cart [{1, 1}, {1, 2}]: ends with inventory 1 and no order.
C6_Witness ==
  /\ Responded(1, 400)
  /\ res[1].error = "inventory"
  /\ res[1].available = 1
  /\ Len(log[1]) = 3
  /\ \A k \in 1..3 : log[1][k].id = 1
  /\ pc[2] = "idle"
  /\ snap[1][1] = 2
  /\ products[1].inventory = 1
  /\ orders = <<>>

\* The step in which request r's product.save() resolves.
Saves(r) == pc[r] = "save" /\ Len(log'[r]) = Len(log[r]) + 1

\* Requests r and q both read product p at its initial inventory, as the first
\* item of their carts, before either saved; q has saved since (and done
\* nothing else), and r's save resolves in this step.
RaceOn(r, q, p) ==
  /\ r # q
  /\ Saves(r)
  /\ idx[r] = 1
  /\ product[r]._id = p
  /\ p \in DOMAIN snap[1]
  /\ product[r].inventory + items[r][1].quantity = snap[1][p]
  /\ pc[q] \in {"findById", "orderSave"}
  /\ Len(log[q]) = 2
  /\ log[q][2].id = p

\* C7 as stated: when two concurrent placements both observe sufficient
\* inventory of one product before either saves, and together ask for more than
\* there is, their two saves drive the product's inventory negative.
C7_RaceDrivesNegative ==
  [][\A r \in Reqs, q \in Reqs, p \in ProductIds :
       (RaceOn(r, q, p) /\ items[r][1].quantity + items[q][1].quantity > snap[1][p])
         => products'[p].inventory < 0]_vars

\* C7 amended: in that interleaving each save writes the value its own request
\* computed, so the later save overwrites the earlier one: the inventory ends at
\* the inventory both read minus the later saver's quantity, and is not
\* negative.
C7_RaceLosesUpdate ==
  [][\A r \in Reqs, q \in Reqs, p \in ProductIds :
       RaceOn(r, q, p)
         => /\ products[p].inventory = snap[1][p] - items[q][1].quantity
            /\ products'[p].inventory = snap[1][p] - items[r][1].quantity
            /\ products'[p].inventory >= 0]_vars

\* Inventory 2; both placements asked for 2 units, both read 2 and both were
\* answered 201.
C7_Witness ==
  /\ Len(orders) = 2
  /\ \A k \in 1..2 :
       /\ Len(orders[k].items) = 1
       /\ orders[k].items[1].product = 1
       /\ orders[k].items[1].quantity = 2
  /\ snap[1][1] = 2
  /\ products[1].inventory = 0

SameCart(a, b) ==
  /\ Len(a) = Len(b)
  /\ \A k \in 1..Len(a) : a[k].product = b[k].product /\ a[k].quantity = b[k].quantity

\* C8: when a placement that succeeded is submitted again after its saves and
\* succeeds again, a second, distinct Order document is inserted and every
\* product's inventory ends at its initial value minus twice the units of the
\* cart.
C8_NotIdempotent ==
  [][\A r \in Reqs, q \in Reqs :
       (/\ r # q
        /\ pc[r] = "orderSave"
        /\ pc'[r] = "done"
        /\ res'[r].status = 201
        /\ Responded(q, 201)
        /\ SameCart(orders[res[q].order].items, processedItems[r])
        /\ DOMAIN snap[r] = DOMAIN snap[q]
        /\ \A p \in DOMAIN snap[q] :
             snap[r][p] = snap[q][p] - Units(orders[res[q].order].items, p))
         => /\ Len(orders') = Len(orders) + 1
            /\ res'[r].order # res[q].order
            /\ orders'[res'[r].order].req = r
            /\ orders'[res[q].order] = orders[res[q].order]
            /\ SameCart(orders'[res'[r].order].items, orders[res[q].order].items)
            /\ \A p \in DOMAIN products :
                 products'[p].inventory =
                   snap[q][p] - 2 * Units(orders[res[q].order].items, p)]_vars

\* Inventory 2, cart [{1, 1}] placed twice in sequence: two orders, inventory 0.
C8_Witness ==
  /\ Responded(1, 201)
  /\ Responded(2, 201)
  /\ Len(orders) = 2
  /\ orders[1].items = orders[2].items
  /\ orders[1].items = <<[product |-> 1, name |-> "n1", price |-> 50, quantity |-> 1]>>
  /\ snap[1][1] = 2
  /\ snap[2][1] = 1
  /\ products[1].inventory = 0

\* Every stored line item agrees with what the store returned when its product
\* was fetched.
SnapshotsAsFetched ==
  \A k \in 1..Len(orders) :
    \A j \in 1..Len(orders[k].items) :
      LET it == orders[k].items[j]
          ev == log[orders[k].req][2 * j - 1]
      IN  /\ ev.op = "findById"
          /\ ev.i = j
          /\ it.product = ev.id
          /\ it.name = ev.name
          /\ it.price = ev.price

OrdersKept ==
  \A k \in 1..Len(orders) : Len(orders') >= k /\ orders'[k] = orders[k]

\* C9: each line item of a persisted Order holds the product's name and price
\* as the store held them when that item's product was fetched, and no step -
\* an admin update or delete of the product included - changes an Order that
\* is stored.
C9_SnapshotsImmune == []SnapshotsAsFetched /\ [][OrdersKept]_vars

\* An order holds the old name and price of a product the admin has renamed and
\* repriced since.
C9_Witness ==
  \E k \in 1..Len(orders) :
    LET it == orders[k].items[1]
    IN  /\ it.product \in DOMAIN products
        /\ it.name = "n1"
        /\ it.price = 50
        /\ products[it.product].name = "n2"
        /\ products[it.product].price = 60

\* The store calls of a request alternate findById and save, item by item.
LogInOrder ==
  \A r \in Reqs :
    /\ \A k \in 1..Len(log[r]) :
         /\ log[r][k].i = (k + 1) \div 2
         /\ log[r][k].op = IF k % 2 = 1 THEN "findById" ELSE "save"
    /\ pc[r] = "findById" => Len(log[r]) = 2 * (idx[r] - 1)
    /\ pc[r] = "save" => Len(log[r]) = 2 * idx[r] - 1
    /\ pc[r] = "orderSave" => Len(log[r]) = 2 * Len(items[r])
    /\ pc[r] \in {"findById", "save", "orderSave"} =>
         \A k \in 1..Len(log[r]) : log[r][k].id = items[r][(k + 1) \div 2].product
    /\ (Responded(r, 400) /\ res[r].error \in {"notFound", "inventory"}) =>
         Len(log[r]) % 2 = 1

AbortIsFinal ==
  \A r \in Reqs :
    pc[r] = "done" => (pc'[r] = "done" /\ log'[r] = log[r] /\ res'[r] = res[r])

\* C10: within a request the store calls are findById and save of item 1, then
\* of item 2, and so on, on the products in the order the cart lists them; a
\* failing check is the request's last store call, and a request that has
\* answered makes no further call.
C10_InOrderAbortOnFirst == []LogInOrder /\ [][AbortIsFinal]_vars

\* The cart [{2, _}, {1, _}]: product 2 was fetched and saved before product 1
\* was fetched.
C10_Witness ==
  /\ pc[1] = "save"
  /\ idx[1] = 2
  /\ items[1][1].product = 2
  /\ items[1][2].product = 1
  /\ Len(log[1]) = 3
  /\ log[1][1].id = 2
  /\ log[1][2].id = 2
  /\ log[1][3].id = 1

InFlight == {"findById", "save", "orderSave"}

\* A request has answered exactly when its handler has returned, and the answer
\* is a 201, a 400 or a 500.
Answered ==
  \A r \in Reqs :
    /\ (pc[r] = "done") <=> (res[r] # NoResponse)
    /\ res[r] # NoResponse => res[r].status \in {201, 400, 500}

\* The answer is written once, in the step that ends the handler, and it is the
\* one the outcome of that step calls for.
AnswerFits ==
  \A r \in Reqs :
    /\ res'[r] # res[r] => (res[r] = NoResponse /\ pc[r] # "done" /\ pc'[r] = "done")
    /\ (Fetches(r) /\ Item(r).product \notin DOMAIN products)
         => (res'[r].status = 400 /\ res'[r].error = "notFound")
    /\ (Fetches(r) /\ Item(r).product \in DOMAIN products
                   /\ products[Item(r).product].inventory < Item(r).quantity)
         => (res'[r].status = 400 /\ res'[r].error = "inventory")
    /\ (pc[r] = "save" /\ pc'[r] # "save" /\ log'[r] = log[r])
         => res'[r].status = 500
    /\ (pc[r] = "orderSave" /\ pc'[r] # "orderSave")
         => IF orders' = orders
            THEN res'[r].status = 500
            ELSE /\ res'[r].status = 201
                 /\ res'[r].order = Len(orders')
                 /\ orders' = Append(orders, orders'[Len(orders')])
                 /\ orders'[Len(orders')].req = r
    /\ (pc[r] \in InFlight /\ pc'[r] \notin InFlight) => res'[r] # NoResponse
    /\ (res'[r] # res[r] /\ res'[r].status = 201) => pc[r] = "orderSave"

\* C11: every placement request that reaches the handler gets exactly one HTTP
\* response: 400 with an error when a product is not found or its inventory is
\* insufficient, 500 when a product save or the order insert fails, 201 carrying
\* the persisted Order on success; no failure ends the handler without one.
C11_OneResponse == []Answered /\ [][AnswerFits]_vars

\* The save of the second line item failed after the first item's was stored:
\* the request was answered 500 and left no order.
C11_Witness ==
  /\ Responded(1, 500)
  /\ Len(log[1]) = 3
  /\ log[1][3].op = "findById"
  /\ OrdersOf(1) = {}

\* What C12 says a body that passed validateOrder has.
WellFormed(b) ==
  /\ "items" \in DOMAIN b
  /\ "itemsType" \notin DOMAIN b
  /\ Len(b.items) >= 1
  /\ \A k \in 1..Len(b.items) :
       /\ DOMAIN b.items[k] = {"product", "quantity"}
       /\ b.items[k].quantity >= 1
  /\ "shippingAddress" \in DOMAIN b
  /\ AddressFields \subseteq DOMAIN b.shippingAddress
  /\ "paymentMethod" \in DOMAIN b
  /\ b.paymentMethod \in PaymentMethods

\* C12: the placement logic runs only for requests whose body has a non-empty
\* items array in which every item has a product id and a positive integer
\* quantity, a shippingAddress with name, street, city, postalCode and country,
\* and a paymentMethod among credit_card, paypal and bank_transfer; every other
\* request is answered 400, changes no inventory and creates no Order.
C12_OnlyWellFormedPlaced ==
  \A r \in Reqs :
    received[r] # NoBody =>
      IF WellFormed(received[r])
      THEN pc[r] = "findById"
      ELSE /\ Responded(r, 400)
           /\ orders = <<>>
           /\ Inventories = snap[r]

\* C13: a placement that succeeds with no other request and no admin change in
\* between leaves every product's inventory at its value when the request
\* arrived minus the sum of the quantities the cart asked of it (products the
\* cart does not name keep theirs), and persists an Order with status "pending"
\* holding the cart's items and the totals computed from them.
C13_SuccessFrame ==
  [][\A r \in Reqs :
       (pc[r] = "orderSave" /\ pc'[r] = "done" /\ res'[r].status = 201 /\ Alone(r))
         => LET o == orders'[res'[r].order]
            IN  /\ DOMAIN products' = DOMAIN snap[r]
                /\ \A p \in DOMAIN snap[r] :
                     /\ products'[p].inventory = snap[r][p] - Units(items[r], p)
                     /\ Units(items[r], p) = 0 => products'[p].inventory = snap[r][p]
                /\ SameCart(o.items, items[r])
                /\ o.status = "pending"
                /\ Len(orders') = Len(orders) + 1
                /\ o.subtotal = LineSum(o.items)
                /\ o.total = o.subtotal + o.subtotal \div 10
                               + (IF o.subtotal > 100 THEN 0 ELSE 10)]_vars

\* Inventory 2, price 50, cart [{1, 1}] while product 2 has inventory 2: product 1
\* ends at 1, product 2 at 2, subtotal 50, tax 5, shipping 10, total 65, pending.
C13_Witness ==
  /\ Responded(1, 201)
  /\ pc[2] = "idle"
  /\ snap[1] = <<2, 2>>
  /\ Inventories = <<1, 2>>
  /\ orders = <<[req |-> 1, user |-> "u1",
                 items |-> <<[product |-> 1, name |-> "n1", price |-> 50, quantity |-> 1]>>,
                 shippingAddress |-> Address, paymentMethod |-> "credit_card",
                 subtotal |-> 50, tax |-> 5, shipping |-> 10, total |-> 65,
                 status |-> "pending"]>>

\* The fields of an Order that are set when it is created.
CreatedFields ==
  {"user", "items", "shippingAddress", "paymentMethod",
   "subtotal", "tax", "shipping", "total"}

\* No step removes a stored Order or changes one of its created fields.
OrderFrozen ==
  \A k \in 1..Len(orders) :
    /\ Len(orders') >= k
    /\ \A f \in CreatedFields : orders'[k][f] = orders[k][f]

\* A stored Order changes only in a PATCH by an admin that is answered 200, which
\* sets a valid status and at most adds or sets trackingNumber; a PATCH answered
\* otherwise changes no order.
OnlyAdminPatch ==
  /\ \A k \in 1..Len(orders) :
       orders'[k] # orders[k] =>
         /\ reply'.route = "updateStatus"
         /\ reply'.status = 200
         /\ reply'.id = k
         /\ Role(reply'.caller) = "admin"
         /\ orders'[k].status \in Statuses
         /\ DOMAIN orders'[k] \subseteq DOMAIN orders[k] \cup {"trackingNumber"}
         /\ \A f \in DOMAIN orders[k] \ {"status", "trackingNumber"} :
              orders'[k][f] = orders[k][f]
  /\ (reply' # reply /\ reply'.route = "updateStatus" /\ reply'.status # 200)
       => orders' = orders

\* C14: once an Order is created no step changes its user, items, shipping
\* address, payment method, subtotal, tax, shipping or total; the only change to
\* it is PATCH /orders/:id/status by an admin, which sets a status among pending,
\* processing, shipped, delivered and cancelled (and the trackingNumber when one
\* is given) and leaves the order as it was when the status is missing or not
\* one of these.
C14_OnlyStatusChanges ==
  /\ [](\A k \in 1..Len(orders) : orders[k].status \in Statuses)
  /\ [][OrderFrozen /\ OnlyAdminPatch]_vars

\* An order was shipped with a tracking number and then an invalid status was
\* refused: everything it was created with is as it was.
C14_Witness ==
  /\ Len(orders) = 1
  /\ orders[1] = [req |-> 1, user |-> "u1",
                  items |-> <<[product |-> 1, name |-> "n1", price |-> 50, quantity |-> 1]>>,
                  shippingAddress |-> Address, paymentMethod |-> "credit_card",
                  subtotal |-> 50, tax |-> 5, shipping |-> 10, total |-> 65,
                  status |-> "shipped", trackingNumber |-> "t1"]
  /\ reply = Reply("updateStatus", "admin", 1, 400)

\* What the last response says about who was let in.
Guarded ==
  /\ reply # NoReply =>
       /\ (reply.status = 401) <=> (reply.caller = "anon")
       /\ reply.status = 403 => Role(reply.caller) # "admin"
  /\ (reply # NoReply /\ reply.route = "getOrder") =>
       /\ ("order" \in DOMAIN reply) <=> (reply.status = 200)
       /\ reply.status \in {200, 403} =>
            /\ reply.id \in 1..Len(orders)
            /\ (reply.status = 200) <=>
                  (orders[reply.id].user = reply.caller \/ Role(reply.caller) = "admin")
       /\ reply.status = 200 => reply.order = reply.id
  /\ reading # NoRead =>
       /\ reading.caller # "anon"
       /\ reading.id \in 1..Len(orders)
       /\ orders[reading.id].user = reading.caller \/ Role(reading.caller) = "admin"
  /\ (reply # NoReply /\ reply.route \in {"listOrders", "updateStatus"}) =>
       (reply.status \notin {401, 403}) <=> (Role(reply.caller) = "admin")

\* A request for a stored order by an authenticated caller who is neither its
\* owner nor an admin is answered 403 when the store answers.
Refused ==
  (reply' # reply /\ reply'.route = "getOrder" /\ reply'.caller # "anon"
     /\ reply'.id \in 1..Len(orders)
     /\ orders[reply'.id].user # reply'.caller /\ Role(reply'.caller) # "admin")
    => reply'.status \in {403, 500}

\* C15: GET /orders/:id sends the order only to its authenticated owner or an
\* admin; another authenticated user gets 403 and a caller without a valid token
\* 401; GET /orders and PATCH /orders/:id/status run their handler only when
\* req.user.role is admin.
C15_OwnerOrAdmin == []Guarded /\ [][Refused]_vars

\* Another customer asked for u1's order and was refused.
C15_Witness ==
  /\ Len(orders) = 1
  /\ orders[1].user = "u1"
  /\ reply = Reply("getOrder", "u2", 1, 403)

\* Units of product p over all stored orders.
RECURSIVE Sold(_, _)
Sold(os, p) == IF os = <<>> THEN 0 ELSE Units(os[1].items, p) + Sold(Tail(os), p)

\* C16: under any interleaving of placements, with no admin change to the
\* inventory once the first of them arrived, for every product the quantity
\* sold across the stored Orders is at most its initial inventory, and the
\* inventory has dropped by at least that quantity.
C16_NoOverselling ==
  \A p \in DOMAIN snap[1] :
    /\ Sold(orders, p) <= snap[1][p]
    /\ snap[1][p] - products[p].inventory >= Sold(orders, p)

\* C17: DELETE /categories/:id never removes a category that, when it is
\* removed, is the category of a product or the parent of another category,
\* also when product or category creates and updates run between the awaits of
\* the delete.
C17_NeverRemovesReferenced ==
  [][\A id \in DOMAIN categories :
       id \notin DOMAIN categories' => ~HasProducts(id) /\ ~HasSubcategories(id)]_vars

====
